---- MODULE Spec2Model ----
(***************************************************************************)
(* Two read-only HTTP services over three document collections.           *)
(*   service "A" (port 5001): GET /fetch-master-data                      *)
(*   service "B" (port 5000): GET /fetch-data, /fetch-referal-data, /test *)
(* Each collection route awaits Model.find() and then answers in the      *)
(* continuation of the await; /test answers synchronously.                *)
(***************************************************************************)
EXTENDS Integers, Sequences, FiniteSets, TLC

\* ---- bounds ----
MaxReq == 2      \* requests accepted in one behaviour (both services together)
MaxDocs == 2     \* documents present in the database (all collections together)

\* ---- fixed names of the program ----
Services == {"A", "B"}
Collections == {"master", "hcp", "referal"}
CollectionRoutes == {"/fetch-master-data", "/fetch-data", "/fetch-referal-data"}
Routes == CollectionRoutes \cup {"/test"}

ServiceOf(route) == IF route = "/fetch-master-data" THEN "A" ELSE "B"

CollectionOf(route) ==
  CASE route = "/fetch-master-data"  -> "master"
    [] route = "/fetch-data"         -> "hcp"
    [] route = "/fetch-referal-data" -> "referal"

\* Documents are schema-less; the store gives each one an _id.
Docs == {[_id |-> i] : i \in 1..MaxDocs}

\* Errors a rejected find() can carry (an Error object with a message).
Errors == {[message |-> "buffering timed out"], [message |-> "topology was destroyed"]}

NoErr == [message |-> ""]

RECURSIVE InjSeqs(_)
\* all sequences over S without repetition
InjSeqs(S) ==
  IF S = {} THEN {<<>>}
  ELSE {<<>>} \cup UNION {{<<d>> \o t : t \in InjSeqs(S \ {d})} : d \in S}

Range(s) == {s[i] : i \in DOMAIN s}

VARIABLES
  conn,      \* per service: state of the one mongoose.connect() attempt
  running,   \* per service: the process is alive and its listener accepts
  store,     \* per collection: the documents, in the order find() returns them
  reqs       \* the requests accepted so far, in order of arrival

vars == <<conn, running, store, reqs>>

\* ---- res.json / res.status(n).json ----
ResJson(status, body) == [status |-> status, body |-> body]

\* ---- handlers: what the code after `await find()` sends ----

\* part_000: the 404 branch without its `return`
MasterDataThenNoReturn(masterData) ==
  IF Len(masterData) = 0
    THEN <<ResJson(404, [message |-> "No Master Data Found"]), ResJson(200, masterData)>>
    ELSE <<ResJson(200, masterData)>>

\* part_000: the empty check left out
MasterDataThenNo404(masterData) == <<ResJson(200, masterData)>>

\* part_000: a result that loses its first document
MasterDataThenDrop(masterData) ==
  IF Len(masterData) = 0
    THEN <<ResJson(404, [message |-> "No Master Data Found"])>>
    ELSE <<ResJson(200, Tail(masterData))>>

MasterDataThen(masterData) ==
  IF Len(masterData) = 0
    THEN <<ResJson(404, [message |-> "No Master Data Found"])>>
    ELSE <<ResJson(200, masterData)>>

\* part_000: a catch block that answers 200 with the message
MasterDataCatchOk(err) ==
  <<ResJson(200, [message |-> "Error fetching Master Data", error |-> err])>>

MasterDataCatch(err) ==
  <<ResJson(500, [message |-> "Error fetching Master Data", error |-> err])>>

\* hcp_data.js: the master route's empty check copied into /fetch-data
FetchDataThen404(data) ==
  IF Len(data) = 0
    THEN <<ResJson(404, [message |-> "No Master Data Found"])>>
    ELSE <<ResJson(200, data)>>

FetchDataThen(data) == <<ResJson(200, data)>>

FetchDataCatch(err) ==
  <<ResJson(500, [message |-> "Error fetching HCP data", error |-> err.message])>>

FetchReferalDataThen(refer_data) == <<ResJson(200, refer_data)>>

FetchReferalDataCatch(err) ==
  <<ResJson(500, [message |-> "Error fetching Master Data", error |-> err.message])>>

TestHandler == <<ResJson(200, [message |-> "API is working!"])>>

\* ---- requests ----
\* read: "none" (no find issued), "pending", "ok" (resolved with data),
\*       "err" (rejected with err); sent: the responses written, in order;
\* done: the handler has run to its end.
NewRead(route) ==
  [route |-> route, read |-> "pending", data |-> <<>>, err |-> NoErr,
   sent |-> <<>>, done |-> FALSE]

\* a listener that serves one request at a time
CanDispatchSerial(s) ==
  /\ running[s]
  /\ Len(reqs) < MaxReq
  /\ \A i \in DOMAIN reqs : ServiceOf(reqs[i].route) = s => reqs[i].read # "pending"

\* app.listen: the listener hands every arriving request to its route
CanDispatch(s) ==
  /\ running[s]
  /\ Len(reqs) < MaxReq

Init ==
  /\ conn = [s \in Services |-> "connecting"]
  /\ running = [s \in Services |-> TRUE]
  /\ store \in [Collections -> InjSeqs(Docs)]
  /\ \A c, d \in Collections : c # d => Range(store[c]) \cap Range(store[d]) = {}
  /\ reqs = <<>>

\* ---- mongoose.connect(...).then / .catch ----
ConnectSucceeds(s) ==
  /\ conn[s] = "connecting"
  /\ conn' = [conn EXCEPT ![s] = "connected"]
  /\ UNCHANGED <<running, store, reqs>>

\* a catch that ends the process
ConnectFailsExit(s) ==
  /\ conn[s] = "connecting"
  /\ conn' = [conn EXCEPT ![s] = "failed"]
  /\ running' = [running EXCEPT ![s] = FALSE]
  /\ UNCHANGED <<store, reqs>>

ConnectFails(s) ==
  /\ conn[s] = "connecting"
  /\ conn' = [conn EXCEPT ![s] = "failed"]
  /\ UNCHANGED <<running, store, reqs>>

\* ---- a request arrives: the handler runs up to its await ----
FetchMasterData ==
  /\ CanDispatch("A")
  /\ reqs' = Append(reqs, NewRead("/fetch-master-data"))
  /\ UNCHANGED <<conn, running, store>>

FetchData ==
  /\ CanDispatch("B")
  /\ reqs' = Append(reqs, NewRead("/fetch-data"))
  /\ UNCHANGED <<conn, running, store>>

FetchReferalData ==
  /\ CanDispatch("B")
  /\ reqs' = Append(reqs, NewRead("/fetch-referal-data"))
  /\ UNCHANGED <<conn, running, store>>

\* a /test that reports the state of the connection
TestViaDb ==
  /\ CanDispatch("B")
  /\ reqs' = Append(reqs, [route |-> "/test", read |-> "none", data |-> <<>>,
                           err |-> NoErr,
                           sent |-> IF conn["B"] = "connected" THEN TestHandler
                                    ELSE <<ResJson(500, [message |-> "API is working!"])>>,
                           done |-> TRUE])
  /\ UNCHANGED <<conn, running, store>>

\* /test has no await: it answers in the same step
Test ==
  /\ CanDispatch("B")
  /\ reqs' = Append(reqs, [route |-> "/test", read |-> "none", data |-> <<>>,
                           err |-> NoErr, sent |-> TestHandler, done |-> TRUE])
  /\ UNCHANGED <<conn, running, store>>

\* ---- Model.find() settles ----
\* a read that removes what it returns
FindResolvesDeleting(i) ==
  /\ i \in DOMAIN reqs
  /\ reqs[i].read = "pending"
  /\ conn[ServiceOf(reqs[i].route)] = "connected"
  /\ reqs' = [reqs EXCEPT ![i].read = "ok",
                          ![i].data = store[CollectionOf(reqs[i].route)]]
  /\ store' = [store EXCEPT ![CollectionOf(reqs[i].route)] = <<>>]
  /\ UNCHANGED <<conn, running>>

\* find() with no filter resolves with every document of the collection;
\* it can resolve only over an established connection (until then the
\* operation is buffered).
FindResolves(i) ==
  /\ i \in DOMAIN reqs
  /\ reqs[i].read = "pending"
  /\ conn[ServiceOf(reqs[i].route)] = "connected"
  /\ reqs' = [reqs EXCEPT ![i].read = "ok",
                          ![i].data = store[CollectionOf(reqs[i].route)]]
  /\ UNCHANGED <<conn, running, store>>

\* find() can reject in any connection state
FindRejects(i, e) ==
  /\ i \in DOMAIN reqs
  /\ reqs[i].read = "pending"
  /\ reqs' = [reqs EXCEPT ![i].read = "err", ![i].err = e]
  /\ UNCHANGED <<conn, running, store>>

\* ---- the handler resumes after its await ----
Settled(i, route) ==
  /\ i \in DOMAIN reqs
  /\ reqs[i].route = route
  /\ reqs[i].read \in {"ok", "err"}
  /\ ~reqs[i].done

Respond(i, out) ==
  /\ reqs' = [reqs EXCEPT ![i].sent = reqs[i].sent \o out, ![i].done = TRUE]
  /\ UNCHANGED <<conn, running, store>>

FetchMasterDataResume(i) ==
  /\ Settled(i, "/fetch-master-data")
  /\ Respond(i, IF reqs[i].read = "ok" THEN MasterDataThen(reqs[i].data)
                                       ELSE MasterDataCatch(reqs[i].err))

FetchDataResume(i) ==
  /\ Settled(i, "/fetch-data")
  /\ Respond(i, IF reqs[i].read = "ok" THEN FetchDataThen(reqs[i].data)
                                       ELSE FetchDataCatch(reqs[i].err))

FetchReferalDataResume(i) ==
  /\ Settled(i, "/fetch-referal-data")
  /\ Respond(i, IF reqs[i].read = "ok" THEN FetchReferalDataThen(reqs[i].data)
                                       ELSE FetchReferalDataCatch(reqs[i].err))

Next ==
  \/ \E s \in Services : ConnectSucceeds(s)
  \/ \E s \in Services : ConnectFails(s)
  \/ FetchMasterData
  \/ FetchData
  \/ FetchReferalData
  \/ Test
  \/ \E i \in 1..MaxReq : FindResolves(i)
  \/ \E i \in 1..MaxReq, e \in Errors : FindRejects(i, e)
  \/ \E i \in 1..MaxReq : FetchMasterDataResume(i)
  \/ \E i \in 1..MaxReq : FetchDataResume(i)
  \/ \E i \in 1..MaxReq : FetchReferalDataResume(i)

Spec == Init /\ [][Next]_vars

TypeOK ==
  /\ conn \in [Services -> {"connecting", "connected", "failed"}]
  /\ running \in [Services -> BOOLEAN]
  /\ Len(reqs) <= MaxReq
  /\ \A i \in DOMAIN reqs : reqs[i].route \in Routes

\* ---- helpers for the properties ----
Idx == DOMAIN reqs

Statuses(i) == {reqs[i].sent[k].status : k \in DOMAIN reqs[i].sent}

SentOne(i, status) == Len(reqs[i].sent) = 1 /\ reqs[i].sent[1].status = status

\* C1: on /fetch-master-data, a read that resolves with zero documents is
\* answered 404 {message: "No Master Data Found"}, and no 200 is sent.
C1_EmptyMasterIs404 ==
  \A i \in Idx :
    (reqs[i].route = "/fetch-master-data" /\ reqs[i].read = "ok" /\ Len(reqs[i].data) = 0)
      => /\ 200 \notin Statuses(i)
         /\ reqs[i].done => /\ SentOne(i, 404)
                            /\ reqs[i].sent[1].body = [message |-> "No Master Data Found"]

C1_Witness ==
  \E i \in Idx :
    /\ reqs[i].route = "/fetch-master-data" /\ reqs[i].read = "ok"
    /\ reqs[i].data = <<>> /\ reqs[i].done /\ store["master"] = <<>>

\* C2: on /fetch-master-data, a read that resolves with N > 0 documents is
\* answered 200 with exactly those N documents in the store's order.
C2_MasterDocsAre200 ==
  \A i \in Idx :
    (reqs[i].route = "/fetch-master-data" /\ reqs[i].read = "ok" /\ Len(reqs[i].data) > 0)
      => /\ reqs[i].data = store["master"]
         /\ reqs[i].done => /\ SentOne(i, 200)
                            /\ reqs[i].sent[1].body = store["master"]

C2_Witness ==
  \E i \in Idx :
    /\ reqs[i].route = "/fetch-master-data" /\ reqs[i].read = "ok" /\ reqs[i].done
    /\ Len(store["master"]) = 2 /\ store["master"][1]._id > store["master"][2]._id
    /\ reqs[i].sent[1].body = store["master"]

\* C3: on /fetch-data and /fetch-referal-data, a read that resolves is answered
\* 200 with the documents the store returned, also when there are none (body
\* []); these routes never send 404.
C3_HcpReferalAlways200 ==
  \A i \in Idx :
    reqs[i].route \in {"/fetch-data", "/fetch-referal-data"}
      => /\ 404 \notin Statuses(i)
         /\ (reqs[i].read = "ok" /\ reqs[i].done)
              => /\ SentOne(i, 200)
                 /\ reqs[i].sent[1].body = store[CollectionOf(reqs[i].route)]

C3_Witness ==
  \E i, j \in Idx :
    /\ reqs[i].route = "/fetch-data" /\ reqs[i].read = "ok" /\ reqs[i].done
    /\ reqs[i].sent[1].body = <<>>
    /\ reqs[j].route = "/fetch-referal-data" /\ reqs[j].read = "ok" /\ reqs[j].done
    /\ Len(reqs[j].sent[1].body) = 2

\* C4: on each collection route, a read that rejects is answered 500 with an
\* object holding a message field and an error field; never 200 or 404.
C4_FailedReadIs500 ==
  \A i \in Idx :
    reqs[i].read = "err"
      => /\ Statuses(i) \subseteq {500}
         /\ reqs[i].done => /\ SentOne(i, 500)
                            /\ {"message", "error"} \subseteq DOMAIN reqs[i].sent[1].body

C4_Witness ==
  \E i, j \in Idx :
    /\ reqs[i].route = "/fetch-master-data" /\ reqs[i].read = "err" /\ reqs[i].done
    /\ reqs[j].route # "/fetch-master-data" /\ reqs[j].read = "err" /\ reqs[j].done

\* C5: GET /test answers 200 {message: "API is working!"} in every state of
\* the connection and the collections, issues no read, and its answer does
\* not depend on the other requests.
C5_TestAlwaysWorks ==
  /\ \A i \in Idx :
       reqs[i].route = "/test"
         => /\ reqs[i].read = "none"
            /\ reqs[i].done
            /\ SentOne(i, 200)
            /\ reqs[i].sent[1].body = [message |-> "API is working!"]
  /\ Len(reqs) < MaxReq => ENABLED Test

C5_Witness ==
  \E i, j \in Idx :
    /\ i < j
    /\ reqs[i].route = "/fetch-data" /\ reqs[i].read = "pending"
    /\ reqs[j].route = "/test" /\ reqs[j].done
    /\ conn["B"] = "failed"
    /\ store["hcp"] # <<>>

\* C6: after the startup connection attempt has failed, the process keeps
\* running, the connection is never attempted again, and no request to a
\* collection route of that service is answered 200 or 404: only 500.
FailedServiceOnly500(s) ==
  /\ running[s]
  /\ \A i \in Idx :
       (ServiceOf(reqs[i].route) = s /\ reqs[i].route \in CollectionRoutes)
         => /\ reqs[i].read # "ok"
            /\ Statuses(i) \subseteq {500}
            /\ reqs[i].done => SentOne(i, 500)

C6_FailedConnectionOnly500 ==
  [][\A s \in Services :
       /\ conn[s] = "failed" => conn'[s] = "failed"
       /\ conn'[s] = "failed" => FailedServiceOnly500(s)']_vars

C6_Witness ==
  \E i, j \in Idx :
    /\ conn["A"] = "failed" /\ conn["B"] = "failed"
    /\ running["A"] /\ running["B"]
    /\ reqs[i].route = "/fetch-master-data" /\ reqs[i].done /\ SentOne(i, 500)
    /\ reqs[j].route = "/fetch-referal-data" /\ reqs[j].done /\ SentOne(j, 500)

\* C7: a request whose read is pending does not keep the service from
\* accepting, dispatching and answering other requests: while it waits, every
\* route can still be dispatched and every settled request can be answered.
C7_PendingReadBlocksNobody ==
  \A i \in Idx :
    reqs[i].read = "pending"
      => /\ Len(reqs) < MaxReq
              => /\ ENABLED Test
                 /\ ENABLED FetchData
                 /\ ENABLED FetchReferalData
                 /\ ENABLED FetchMasterData
         /\ \A j \in Idx :
              (reqs[j].read \in {"ok", "err"} /\ ~reqs[j].done)
                => \/ ENABLED FetchDataResume(j)
                   \/ ENABLED FetchReferalDataResume(j)
                   \/ ENABLED FetchMasterDataResume(j)
         /\ \A j \in Idx :
              (reqs[j].read = "pending" /\ conn[ServiceOf(reqs[j].route)] = "connected")
                => ENABLED FindResolves(j)

C7_Witness ==
  \E i, j \in Idx :
    /\ i < j
    /\ reqs[i].route = "/fetch-data" /\ reqs[i].read = "pending"
    /\ reqs[j].route = "/fetch-referal-data" /\ reqs[j].read = "ok" /\ reqs[j].done
    /\ SentOne(j, 200)

\* C8: no request changes a collection, and a handler keeps nothing between
\* requests: two requests to one route whose reads had the same outcome get
\* the same status and body, whatever was served before or in between.
SameOutcomeSameResponse ==
  \A i, j \in Idx :
    (/\ reqs[i].route = reqs[j].route
     /\ reqs[i].done /\ reqs[j].done
     /\ reqs[i].read = reqs[j].read
     /\ reqs[i].data = reqs[j].data
     /\ reqs[i].err = reqs[j].err)
      => reqs[i].sent = reqs[j].sent

C9_MessageIdentifiesRoute ==
  \A i, j \in Idx :
    (/\ reqs[i].route # reqs[j].route
     /\ SentOne(i, 500) /\ SentOne(j, 500))
      => reqs[i].sent[1].body.message # reqs[j].sent[1].body.message

\* C10: a request gets at most one response, and exactly one once its handler
\* has resumed after the read: never a 404 and a 200, never a success response
\* and a 500.
C10_ExactlyOneResponse ==
  \A i \in Idx :
    /\ Len(reqs[i].sent) <= 1
    /\ reqs[i].done <=> Len(reqs[i].sent) = 1
    /\ reqs[i].read = "pending" => reqs[i].sent = <<>>

C10_Witness ==
  \E i, j \in Idx :
    /\ reqs[i].route = "/fetch-master-data" /\ reqs[i].read = "ok"
    /\ reqs[i].data = <<>> /\ reqs[i].done /\ Len(reqs[i].sent) = 1
    /\ reqs[j].read = "err" /\ reqs[j].done /\ Len(reqs[j].sent) = 1
====
